---- MODULE Spec2Model ----
(***************************************************************************)
(* Model of the Format Check plugin (src/src/main.ts and its settings tab, *)
(* src/unnamed/part_000).                                                  *)
(*                                                                         *)
(* JavaScript strings are modelled as sequences of one-character strings,  *)
(* so that trim, split, startsWith, endsWith and replace are computed      *)
(* character by character as the code computes them.                       *)
(***************************************************************************)
EXTENDS Integers, Sequences, FiniteSets, TLC

(***************************************************************************)
(* String primitives of the JavaScript runtime used by the code.           *)
(***************************************************************************)

\* White space removed by String.prototype.trim (the characters drawn here).
WhiteSpace == {" ", "\t", "\n", "\r"}

RECURSIVE trimStart(_)
trimStart(s) ==
    IF s # <<>> /\ Head(s) \in WhiteSpace THEN trimStart(Tail(s)) ELSE s

RECURSIVE trimEnd(_)
trimEnd(s) ==
    IF s # <<>> /\ s[Len(s)] \in WhiteSpace
    THEN trimEnd(SubSeq(s, 1, Len(s) - 1))
    ELSE s

\* String.prototype.trim
trim(s) == trimEnd(trimStart(s))

\* String.prototype.split(sep) for a one-character separator: never empty,
\* "".split(sep) is [""].
RECURSIVE split(_, _)
split(s, sep) ==
    IF \E i \in 1..Len(s) : s[i] = sep
    THEN LET i == CHOOSE k \in 1..Len(s) :
                     s[k] = sep /\ \A j \in 1..(k - 1) : s[j] # sep
         IN  <<SubSeq(s, 1, i - 1)>> \o split(SubSeq(s, i + 1, Len(s)), sep)
    ELSE <<s>>

\* String.prototype.startsWith
startsWith(s, prefix) ==
    /\ Len(prefix) <= Len(s)
    /\ SubSeq(s, 1, Len(prefix)) = prefix

\* String.prototype.endsWith for a one-character suffix
endsWith(s, ch) == s # <<>> /\ s[Len(s)] = ch

\* String.prototype.replace(from, to) with a string pattern: the first
\* occurrence only.
replace(s, from, to) ==
    IF \E i \in 1..Len(s) : s[i] = from
    THEN LET i == CHOOSE k \in 1..Len(s) :
                     s[k] = from /\ \A j \in 1..(k - 1) : s[j] # from
         IN  [k \in 1..Len(s) |-> IF k = i THEN to ELSE s[k]]
    ELSE s

\* Array.prototype.map / filter on a list of strings
RECURSIVE mapTrim(_)
mapTrim(list) ==
    IF list = <<>> THEN <<>> ELSE <<trim(Head(list))>> \o mapTrim(Tail(list))

RECURSIVE filterNonEmpty(_)
filterNonEmpty(list) ==
    IF list = <<>> THEN <<>>
    ELSE (IF Len(Head(list)) > 0 THEN <<Head(list)>> ELSE <<>>)
         \o filterNonEmpty(Tail(list))

(***************************************************************************)
(* Date parsing.  new Date(string) on the ECMAScript date-time form        *)
(* YYYY-MM-DDTHH:mm (local time, no offset); any other text drawn by the   *)
(* model is text no engine parses, which gives an Invalid Date (NaN).      *)
(* Times are counted in minutes since 1970-01-01T00:00 local time, that is *)
(* getTime() / 60000: every value drawn has minute resolution and only the *)
(* order of two values is ever used.                                       *)
(***************************************************************************)

Digits == <<"0", "1", "2", "3", "4", "5", "6", "7", "8", "9">>

isDigit(c) == \E i \in 1..10 : Digits[i] = c

digitVal(c) == (CHOOSE i \in 1..10 : Digits[i] = c) - 1

RECURSIVE numVal(_)
numVal(s) ==
    IF s = <<>> THEN 0
    ELSE numVal(SubSeq(s, 1, Len(s) - 1)) * 10 + digitVal(s[Len(s)])

\* Days from 1970-01-01 to the civil date y-m-d (proleptic Gregorian).
daysFromCivil(y, m, d) ==
    LET yy  == IF m <= 2 THEN y - 1 ELSE y
        era == yy \div 400
        yoe == yy - era * 400
        mp  == IF m > 2 THEN m - 3 ELSE m + 9
        doy == (153 * mp + 2) \div 5 + d - 1
        doe == yoe * 365 + yoe \div 4 - yoe \div 100 + doy
    IN  era * 146097 + doe - 719468

NaN == [nan |-> TRUE, t |-> 0]

\* new Date(s).getTime(): [nan |-> TRUE] for an Invalid Date.
DateParse(s) ==
    IF /\ Len(s) = 16
       /\ s[5] = "-" /\ s[8] = "-" /\ s[11] = "T" /\ s[14] = ":"
       /\ \A i \in {1, 2, 3, 4, 6, 7, 9, 10, 12, 13, 15, 16} : isDigit(s[i])
    THEN LET y  == numVal(SubSeq(s, 1, 4))
             mo == numVal(SubSeq(s, 6, 7))
             d  == numVal(SubSeq(s, 9, 10))
             h  == numVal(SubSeq(s, 12, 13))
             mi == numVal(SubSeq(s, 15, 16))
         IN  IF /\ mo \in 1..12 /\ d \in 1..31
                /\ mi \in 0..59
                /\ (h \in 0..23 \/ (h = 24 /\ mi = 0))
             THEN [nan |-> FALSE,
                   t   |-> daysFromCivil(y, mo, d) * 1440 + h * 60 + mi]
             ELSE NaN
    ELSE NaN

(***************************************************************************)
(* Frontmatter values, the metadata cache and the vault (host state).      *)
(***************************************************************************)

\* A frontmatter value as the YAML parser hands it over: k is the JavaScript
\* kind; s the characters of a string; nan/t the getTime() of a Date.
Undefined     == [k |-> "undefined", s |-> <<>>, nan |-> FALSE, t |-> 0]
NullValue     == [k |-> "null",      s |-> <<>>, nan |-> FALSE, t |-> 0]
NumberValue   == [k |-> "number",    s |-> <<>>, nan |-> FALSE, t |-> 0]
StringValue(str) == [k |-> "string", s |-> str,  nan |-> FALSE, t |-> 0]
DateValue(min)   == [k |-> "date",   s |-> <<>>, nan |-> FALSE, t |-> min]
InvalidDate   == [k |-> "date",      s |-> <<>>, nan |-> TRUE,  t |-> 0]

\* frontmatter[name]: a frontmatter object is a set of <<key, value>> pairs
\* with distinct keys; a key that is not there reads as undefined.
getField(frontmatter, name) ==
    IF \E kv \in frontmatter : kv[1] = name
    THEN (CHOOSE kv \in frontmatter : kv[1] = name)[2]
    ELSE Undefined

\* getFileCache(file): null (cached = FALSE), a cache without a frontmatter
\* block (hasFm = FALSE) or a cache with one.
NoCache       == [cached |-> FALSE, hasFm |-> FALSE, frontmatter |-> {}]
NoFrontmatter == [cached |-> TRUE,  hasFm |-> FALSE, frontmatter |-> {}]
WithFrontmatter(fm) == [cached |-> TRUE, hasFm |-> TRUE, frontmatter |-> fm]

\* A slot of the vault: a Markdown file (TFile) with its path and the cache
\* the host keeps for it, or no file.
NoFile == [exists |-> FALSE, path |-> <<>>, cache |-> NoCache]
MdFile(p, c) == [exists |-> TRUE, path |-> p, cache |-> c]

(***************************************************************************)
(* Settings (src/unnamed/part_000).                                        *)
(***************************************************************************)

S_formatted == <<"f", "o", "r", "m", "a", "t", "t", "e", "d">>
S_modified  == <<"m", "o", "d", "i", "f", "i", "e", "d">>
C_amber     == <<"#", "f", "5", "9", "e", "0", "b">>

DEFAULT_SETTINGS ==
    [dotColor        |-> C_amber,
     includedFolders |-> <<>>,
     formattedField  |-> S_formatted,
     modifiedField   |-> S_modified]

SettingsKeys == {"dotColor", "includedFolders", "formattedField", "modifiedField"}

\* Object.assign({}, a, b) on objects given as functions from keys: the keys
\* of b override those of a; b = null (no stored data) is the empty object.
ObjectAssign(a, b) ==
    [key \in (DOMAIN a) \cup (DOMAIN b) |->
        IF key \in DOMAIN b THEN b[key] ELSE a[key]]

(***************************************************************************)
(* The plugin's pure helpers (src/src/main.ts).                            *)
(***************************************************************************)

\* number | null
Null     == [isNull |-> TRUE,  ms |-> 0]
Ms(n)    == [isNull |-> FALSE, ms |-> n]

\* toMs without the isNaN test on a parsed string: the epoch for text that
\* is no date
toMs_noNaNTest(value) ==
    IF value.k = "date"
    THEN IF value.nan THEN Null ELSE Ms(value.t)
    ELSE IF value.k = "string" /\ trim(value.s) # <<>>
    THEN Ms(DateParse(replace(trim(value.s), " ", "T")).t)
    ELSE Null

toMs(value) ==
    IF value.k = "date"
    THEN IF value.nan THEN Null ELSE Ms(value.t)
    ELSE IF value.k = "string" /\ trim(value.s) # <<>>
    THEN LET d == DateParse(replace(trim(value.s), " ", "T"))
         IN  IF d.nan THEN Null ELSE Ms(d.t)
    ELSE Null

\* isInScope matching the folder name without the separator after it
isInScope_noSeparator(path, cfg) ==
    LET includedFolders == cfg.includedFolders
    IN  IF Len(includedFolders) = 0 THEN TRUE
        ELSE \E i \in 1..Len(includedFolders) :
                startsWith(path, includedFolders[i])

isInScope(path, cfg) ==
    LET includedFolders == cfg.includedFolders
    IN  IF Len(includedFolders) = 0 THEN TRUE
        ELSE \E i \in 1..Len(includedFolders) :
                LET folder == includedFolders[i]
                    prefix == IF endsWith(folder, "/") THEN folder
                              ELSE folder \o <<"/">>
                IN  startsWith(path, prefix)

\* checkFile reading the default field names whatever the settings say
checkFile_defaultNames(paths, file, cfg) ==
    IF ~isInScope(file.path, cfg) THEN paths \ {file.path}
    ELSE IF ~(file.cache.cached /\ file.cache.hasFm) THEN paths \ {file.path}
    ELSE LET frontmatter == file.cache.frontmatter
             formattedMs == toMs(getField(frontmatter, DEFAULT_SETTINGS.formattedField))
             modifiedMs  == toMs(getField(frontmatter, DEFAULT_SETTINGS.modifiedField))
             needsFormat ==
                 \/ formattedMs.isNull
                 \/ (~modifiedMs.isNull /\ formattedMs.ms < modifiedMs.ms)
         IN  IF needsFormat THEN paths \cup {file.path}
             ELSE paths \ {file.path}

\* checkFile comparing with <= where the code has <
checkFile_atOrBefore(paths, file, cfg) ==
    IF ~isInScope(file.path, cfg) THEN paths \ {file.path}
    ELSE IF ~(file.cache.cached /\ file.cache.hasFm) THEN paths \ {file.path}
    ELSE LET frontmatter == file.cache.frontmatter
             formattedMs == toMs(getField(frontmatter, cfg.formattedField))
             modifiedMs  == toMs(getField(frontmatter, cfg.modifiedField))
             needsFormat ==
                 \/ formattedMs.isNull
                 \/ (~modifiedMs.isNull /\ formattedMs.ms <= modifiedMs.ms)
         IN  IF needsFormat THEN paths \cup {file.path}
             ELSE paths \ {file.path}

\* checkFile asking for a modified timestamp before it reports a missing
\* formatted one
checkFile_needsModified(paths, file, cfg) ==
    IF ~isInScope(file.path, cfg) THEN paths \ {file.path}
    ELSE IF ~(file.cache.cached /\ file.cache.hasFm) THEN paths \ {file.path}
    ELSE LET frontmatter == file.cache.frontmatter
             formattedMs == toMs(getField(frontmatter, cfg.formattedField))
             modifiedMs  == toMs(getField(frontmatter, cfg.modifiedField))
             needsFormat ==
                 ~modifiedMs.isNull
                 /\ (formattedMs.isNull \/ formattedMs.ms < modifiedMs.ms)
         IN  IF needsFormat THEN paths \cup {file.path}
             ELSE paths \ {file.path}

\* checkFile taking a missing modified timestamp for a reason to format
checkFile_modifiedMissing(paths, file, cfg) ==
    IF ~isInScope(file.path, cfg) THEN paths \ {file.path}
    ELSE IF ~(file.cache.cached /\ file.cache.hasFm) THEN paths \ {file.path}
    ELSE LET frontmatter == file.cache.frontmatter
             formattedMs == toMs(getField(frontmatter, cfg.formattedField))
             modifiedMs  == toMs(getField(frontmatter, cfg.modifiedField))
             needsFormat ==
                 \/ formattedMs.isNull
                 \/ modifiedMs.isNull
                 \/ formattedMs.ms < modifiedMs.ms
         IN  IF needsFormat THEN paths \cup {file.path}
             ELSE paths \ {file.path}

\* checkFile(file) on the tracked set `paths` under settings cfg: the new
\* tracked set.
checkFile(paths, file, cfg) ==
    IF ~isInScope(file.path, cfg) THEN paths \ {file.path}
    ELSE IF ~(file.cache.cached /\ file.cache.hasFm) THEN paths \ {file.path}
    ELSE LET frontmatter == file.cache.frontmatter
             formattedMs == toMs(getField(frontmatter, cfg.formattedField))
             modifiedMs  == toMs(getField(frontmatter, cfg.modifiedField))
             needsFormat ==
                 \/ formattedMs.isNull
                 \/ (~modifiedMs.isNull /\ formattedMs.ms < modifiedMs.ms)
         IN  IF needsFormat THEN paths \cup {file.path}
             ELSE paths \ {file.path}

\* The loop leaving after the first file
checkFiles_firstOnly(paths, list, cfg) ==
    IF list = <<>> THEN paths ELSE checkFile(paths, Head(list), cfg)

\* The loop of scanAllFiles over getMarkdownFiles(), given as a list.
RECURSIVE checkFiles(_, _, _)
checkFiles(paths, list, cfg) ==
    IF list = <<>> THEN paths
    ELSE checkFiles(checkFile(paths, Head(list), cfg), Tail(list), cfg)

\* vault.getMarkdownFiles(): the files of the vault, in slot order.
RECURSIVE getMarkdownFiles(_, _)
getMarkdownFiles(vault, ids) ==
    IF ids = <<>> THEN <<>>
    ELSE (IF vault[Head(ids)].exists THEN <<vault[Head(ids)]>> ELSE <<>>)
         \o getMarkdownFiles(vault, Tail(ids))

(***************************************************************************)
(* State.                                                                  *)
(***************************************************************************)

VARIABLES
    phase,             \* "constructed", "loaded" (onload done), "unloaded"
    layoutReady,       \* the onLayoutReady callback has run
    settings,          \* this.settings (<<>> before loadSettings)
    stored,            \* the host's data.json for the plugin (<<>>: none)
    savesPending,      \* saveSettings calls awaiting saveData
    needsFormatPaths,  \* this.needsFormatPaths
    debounceTimer,     \* this.debounceTimer (NoTimer: null)
    timers,            \* the host's pending setTimeout handles
    files,             \* the vault: slot -> file with its cached metadata
    container,         \* a .nav-files-container is in the document
    els,               \* rendered .nav-file-title[data-path] elements
    observer,          \* this.observer
    records,           \* nodes added or removed in undelivered MutationRecords
    cssColor,          \* --format-check-dot-color on the body (<<>>: unset)
    calls,             \* history: scheduleApplyDecorations calls not yet
                       \* followed by the timer's refresh (saturating)
    last               \* history: the operation that ran last

vars == <<phase, layoutReady, settings, stored, savesPending,
          needsFormatPaths, debounceTimer, timers, files, container, els,
          observer, records, cssColor, calls, last>>

\* The bound on host timer handles and on the calls history counter, the
\* bound on saveSettings calls in flight.
MaxTimers == 2
MaxBurst == 2
MaxSaves == 1

\* this.debounceTimer = null
NoTimer == 0

\* The vault's slots, in getMarkdownFiles() order, and the rendered-element
\* slots.
FileSlots == <<"f1", "f2">>
FileIds == {FileSlots[i] : i \in 1..Len(FileSlots)}
ElIds == {"e1", "e2"}

NoEl == [shown |-> FALSE, path |-> <<>>, dots |-> 0]

\* The nodes a MutationRecord of the container's subtree can name: a title
\* element, or the marker span inside one.
TitleNode(e) == [kind |-> "title", el |-> e]
DotNode(e) == [kind |-> "dot", el |-> e]

Op(name, a) == [op |-> name, arg |-> a]

(***************************************************************************)
(* The plugin's methods on the state (src/src/main.ts).                    *)
(***************************************************************************)

scanAllFiles(vault, cfg) ==
    checkFiles({}, getMarkdownFiles(vault, FileSlots), cfg)

\* applyDecorations without the removal of the dots that are there
applyDecorations_noClear(elements, paths) ==
    [e \in DOMAIN elements |->
        IF elements[e].shown /\ elements[e].path # <<>> /\ elements[e].path \in paths
        THEN [elements[e] EXCEPT !.dots = @ + 1]
        ELSE elements[e]]

\* applyDecorations: every dot is removed, then each title element whose
\* data-path is in the set gets one.
applyDecorations(elements, paths) ==
    [e \in DOMAIN elements |->
        IF elements[e].shown
        THEN [elements[e] EXCEPT
                 !.dots = IF elements[e].path # <<>> /\ elements[e].path \in paths
                          THEN 1 ELSE 0]
        ELSE elements[e]]

\* document.querySelectorAll('.format-check-dot').forEach(el => el.remove())
removeDots(elements) ==
    [e \in DOMAIN elements |-> [elements[e] EXCEPT !.dots = 0]]

\* The records the observed container yields when marker spans are removed
\* from and inserted into its title elements: one node per element that had
\* or has got a span.
dotRecords(before, after) ==
    {DotNode(e) : e \in {x \in DOMAIN before :
                            before[x].shown
                            /\ (before[x].dots > 0 \/ after[x].dots > 0)}}

\* The observer's queue after the nodes have changed under the container.
enqueue(obs, queue, nodes) ==
    IF obs = "observing" THEN queue \cup nodes ELSE queue

\* decorate without the test for a span that is already there
decorate_noTest(elements, added, paths) ==
    [e \in DOMAIN elements |->
        IF /\ TitleNode(e) \in added
           /\ elements[e].shown
           /\ elements[e].path # <<>>
           /\ elements[e].path \in paths
        THEN [elements[e] EXCEPT !.dots = @ + 1]
        ELSE elements[e]]

\* decorate(el) of the observer callback, for each title element of the
\* records; a marker span is no title element and holds none.
decorate(elements, added, paths) ==
    [e \in DOMAIN elements |->
        IF /\ TitleNode(e) \in added
           /\ elements[e].shown
           /\ elements[e].path # <<>>
           /\ elements[e].path \in paths
           /\ elements[e].dots = 0
        THEN [elements[e] EXCEPT !.dots = @ + 1]
        ELSE elements[e]]

\* clearTimeout(handle) on the host's pending handles.
clearTimeout(pending, handle) == pending \ {handle}

\* The handles left pending after scheduleApplyDecorations' clearTimeout.
afterClear(dt, pending) ==
    IF dt # NoTimer THEN clearTimeout(pending, dt) ELSE pending

\* setTimeout returns a handle that is not pending.
CanSetTimeout(pending) == \E id \in 1..MaxTimers : id \notin pending
setTimeout(pending) ==
    CHOOSE id \in 1..MaxTimers :
        id \notin pending /\ \A j \in 1..(id - 1) : j \in pending

\* scheduleApplyDecorations without its clearTimeout
scheduleApplyDecorations_noClear(dt, pending) ==
    LET id == setTimeout(pending)
    IN  [debounceTimer |-> id, timers |-> pending \cup {id}]

\* scheduleApplyDecorations clearing the pending timer and setting none
scheduleApplyDecorations_noTimer(dt, pending) ==
    [debounceTimer |-> NoTimer, timers |-> afterClear(dt, pending)]

\* scheduleApplyDecorations: the new debounceTimer and pending handles.
scheduleApplyDecorations(dt, pending) ==
    LET cleared == afterClear(dt, pending)
        id      == setTimeout(cleared)
    IN  [debounceTimer |-> id, timers |-> cleared \cup {id}]

CanSchedule == CanSetTimeout(afterClear(debounceTimer, timers))

\* setupObserver: the old observer is disconnected (its undelivered records
\* are dropped); a new one observes the container if there is one.
setupObserver(obs, hasContainer) ==
    LET disconnected == IF obs = "null" THEN "null" ELSE "disconnected"
    IN  IF ~hasContainer THEN disconnected ELSE "observing"

\* The folder list without the filter that drops empty lines
parseFolders_noFilter(value) == mapTrim(split(value, "\n"))

\* The assignments of the three field-name / folder onChange handlers.
parseFolders(value) == filterNonEmpty(mapTrim(split(value, "\n")))

\* The field-name handlers without the fall-back to the default name
parseFieldName_noDefault(value, default) == trim(value)

parseFieldName(value, default) ==
    LET trimmed == trim(value)
    IN  IF Len(trimmed) > 0 THEN trimmed ELSE default

(***************************************************************************)
(* Actions: one per handler or host step.                                  *)
(***************************************************************************)

\* Object.assign with the defaults last, so that they win
loadSettings_defaultsWin(data) == ObjectAssign(data, DEFAULT_SETTINGS)

loadSettings(data) == ObjectAssign(DEFAULT_SETTINGS, data)

\* onload: loadSettings, addSettingTab, updateDotColor, and the handlers
\* are registered.
Load ==
    /\ phase = "constructed"
    /\ settings' = loadSettings(stored)
    /\ cssColor' = settings'.dotColor
    /\ phase' = "loaded"
    /\ last' = Op("onload", <<>>)
    /\ UNCHANGED <<layoutReady, stored, savesPending, needsFormatPaths,
                   debounceTimer, timers, files, container, els, observer,
                   records, calls>>

\* The onLayoutReady callback.
LayoutReady ==
    /\ phase = "loaded"
    /\ ~layoutReady
    /\ layoutReady' = TRUE
    /\ needsFormatPaths' = scanAllFiles(files, settings)
    /\ els' = applyDecorations(els, needsFormatPaths')
    /\ observer' = setupObserver(observer, container)
    /\ records' = {}
    /\ last' = Op("layoutReady", <<>>)
    /\ UNCHANGED <<phase, settings, stored, savesPending, debounceTimer,
                   timers, files, container, cssColor, calls>>

\* metadataCache 'changed': the host has replaced the file's cache by c.
MetadataChanged(f, c) ==
    /\ phase = "loaded"
    /\ files[f].exists
    /\ c.cached
    /\ CanSchedule
    /\ files' = [files EXCEPT ![f].cache = c]
    /\ needsFormatPaths' = checkFile(needsFormatPaths, files'[f], settings)
    /\ LET sch == scheduleApplyDecorations(debounceTimer, timers)
       IN  /\ debounceTimer' = sch.debounceTimer
           /\ timers' = sch.timers
    /\ calls' = IF calls < MaxBurst THEN calls + 1 ELSE calls
    /\ last' = Op("changed", files[f].path)
    /\ UNCHANGED <<phase, layoutReady, settings, stored, savesPending,
                   container, els, observer, records, cssColor>>

\* workspace 'layout-change'
LayoutChange ==
    /\ phase = "loaded"
    /\ CanSchedule
    /\ LET sch == scheduleApplyDecorations(debounceTimer, timers)
       IN  /\ debounceTimer' = sch.debounceTimer
           /\ timers' = sch.timers
    /\ calls' = IF calls < MaxBurst THEN calls + 1 ELSE calls
    /\ observer' = setupObserver(observer, container)
    /\ records' = {}
    /\ last' = Op("layoutChange", <<>>)
    /\ UNCHANGED <<phase, layoutReady, settings, stored, savesPending,
                   needsFormatPaths, files, container, els, cssColor>>

\* The host creates a Markdown file; its cache is filled in later (a
\* 'changed' event).  The plugin registers no handler for it.
CreateFile(f, p) ==
    /\ phase = "loaded"
    /\ ~files[f].exists
    /\ \A g \in FileIds : ~(files[g].exists /\ files[g].path = p)
    /\ files' = [files EXCEPT ![f] = MdFile(p, NoCache)]
    /\ last' = Op("create", p)
    /\ UNCHANGED <<phase, layoutReady, settings, stored, savesPending,
                   needsFormatPaths, debounceTimer, timers, container, els,
                   observer, records, cssColor, calls>>

\* The 'delete' handler emptying the set
onDelete_clear(paths, path) == {}

\* The 'delete' handler on the tracked set, for a TFile of that path.
onDelete(paths, path) == paths \ {path}

\* vault 'delete' of a TFile
DeleteFile(f) ==
    /\ phase = "loaded"
    /\ files[f].exists
    /\ files' = [files EXCEPT ![f] = NoFile]
    /\ needsFormatPaths' = onDelete(needsFormatPaths, files[f].path)
    /\ last' = Op("delete", files[f].path)
    /\ UNCHANGED <<phase, layoutReady, settings, stored, savesPending,
                   debounceTimer, timers, container, els, observer, records,
                   cssColor, calls>>

\* The 'rename' handler leaving the old path in the set when the file is
\* re-checked
onRename_keepOld(paths, oldPath, file, cfg) ==
    LET wasTracked == oldPath \in paths
    IN  IF wasTracked THEN checkFile(paths, file, cfg)
        ELSE paths \ {oldPath}

\* The 'rename' handler on the tracked set, for a TFile now at file.path.
onRename(paths, oldPath, file, cfg) ==
    LET wasTracked == oldPath \in paths
        deleted    == paths \ {oldPath}
    IN  IF wasTracked THEN checkFile(deleted, file, cfg)
        ELSE deleted

\* vault 'rename' of a TFile: the host has moved the file to path p.
RenameFile(f, p) ==
    /\ phase = "loaded"
    /\ files[f].exists
    /\ \A g \in FileIds : ~(files[g].exists /\ files[g].path = p)
    /\ CanSchedule
    /\ files' = [files EXCEPT ![f].path = p]
    /\ needsFormatPaths' =
           onRename(needsFormatPaths, files[f].path, files'[f], settings)
    /\ LET sch == scheduleApplyDecorations(debounceTimer, timers)
       IN  /\ debounceTimer' = sch.debounceTimer
           /\ timers' = sch.timers
    /\ calls' = IF calls < MaxBurst THEN calls + 1 ELSE calls
    /\ last' = Op("rename", p)
    /\ UNCHANGED <<phase, layoutReady, settings, stored, savesPending,
                   container, els, observer, records, cssColor>>

\* vault 'delete' or 'rename' of a folder (not a TFile): both handlers
\* return without doing anything.
FolderEvent ==
    /\ phase = "loaded"
    /\ last' = Op("folderEvent", <<>>)
    /\ UNCHANGED <<phase, layoutReady, settings, stored, savesPending,
                   needsFormatPaths, debounceTimer, timers, files, container,
                   els, observer, records, cssColor, calls>>

\* The debounce timer expires.
TimerFire(id) ==
    /\ id \in timers
    /\ els' = applyDecorations(els, needsFormatPaths)
    /\ records' = enqueue(observer, records, dotRecords(els, els'))
    /\ debounceTimer' = NoTimer
    /\ timers' = timers \ {id}
    /\ calls' = 0
    /\ last' = Op("timer", <<>>)
    /\ UNCHANGED <<phase, layoutReady, settings, stored, savesPending,
                   needsFormatPaths, files, container, observer, cssColor>>

\* saveSettings up to its await: saveData serialises the settings.
saveSettingsCall(cfg) ==
    /\ stored' = cfg
    /\ savesPending' = savesPending + 1

\* The colour picker's onChange
SetDotColor(value) ==
    /\ phase = "loaded"
    /\ savesPending < MaxSaves
    /\ settings' = [settings EXCEPT !.dotColor = value]
    /\ saveSettingsCall(settings')
    /\ last' = Op("setDotColor", value)
    /\ UNCHANGED <<phase, layoutReady, needsFormatPaths, debounceTimer,
                   timers, files, container, els, observer, records,
                   cssColor, calls>>

\* The included-folders text area's onChange
SetIncludedFolders(value) ==
    /\ phase = "loaded"
    /\ savesPending < MaxSaves
    /\ settings' = [settings EXCEPT !.includedFolders = parseFolders(value)]
    /\ saveSettingsCall(settings')
    /\ last' = Op("setIncludedFolders", value)
    /\ UNCHANGED <<phase, layoutReady, needsFormatPaths, debounceTimer,
                   timers, files, container, els, observer, records,
                   cssColor, calls>>

\* The formatted-field text's onChange
SetFormattedField(value) ==
    /\ phase = "loaded"
    /\ savesPending < MaxSaves
    /\ settings' = [settings EXCEPT !.formattedField =
                       parseFieldName(value, DEFAULT_SETTINGS.formattedField)]
    /\ saveSettingsCall(settings')
    /\ last' = Op("setFormattedField", value)
    /\ UNCHANGED <<phase, layoutReady, needsFormatPaths, debounceTimer,
                   timers, files, container, els, observer, records,
                   cssColor, calls>>

\* The modified-field text's onChange
SetModifiedField(value) ==
    /\ phase = "loaded"
    /\ savesPending < MaxSaves
    /\ settings' = [settings EXCEPT !.modifiedField =
                       parseFieldName(value, DEFAULT_SETTINGS.modifiedField)]
    /\ saveSettingsCall(settings')
    /\ last' = Op("setModifiedField", value)
    /\ UNCHANGED <<phase, layoutReady, needsFormatPaths, debounceTimer,
                   timers, files, container, els, observer, records,
                   cssColor, calls>>

\* saveSettings after its await: saveData has resolved.  The continuation
\* runs whether or not the plugin has been unloaded meanwhile.
SaveDone ==
    /\ savesPending > 0
    /\ savesPending' = savesPending - 1
    /\ cssColor' = settings.dotColor
    /\ needsFormatPaths' = scanAllFiles(files, settings)
    /\ els' = applyDecorations(els, needsFormatPaths')
    /\ records' = enqueue(observer, records, dotRecords(els, els'))
    /\ last' = Op("saveDone", <<>>)
    /\ UNCHANGED <<phase, layoutReady, settings, stored, debounceTimer,
                   timers, files, container, observer, calls>>

\* onunload; the host also removes the registered event handlers and the
\* settings tab.
Unload ==
    /\ phase = "loaded"
    /\ phase' = "unloaded"
    /\ observer' = "null"
    /\ records' = {}
    /\ timers' = afterClear(debounceTimer, timers)
    /\ els' = removeDots(els)
    /\ cssColor' = <<>>
    /\ calls' = 0
    /\ last' = Op("onunload", <<>>)
    /\ UNCHANGED <<layoutReady, settings, stored, savesPending,
                   needsFormatPaths, debounceTimer, files, container>>

\* The host opens the file explorer: a container with no rendered items.
ExplorerOpen ==
    /\ ~container
    /\ container' = TRUE
    /\ last' = Op("explorerOpen", <<>>)
    /\ UNCHANGED <<phase, layoutReady, settings, stored, savesPending,
                   needsFormatPaths, debounceTimer, timers, files, els,
                   observer, records, cssColor, calls>>

\* The host closes the file explorer: the container and the elements in
\* it leave the document; an observer of it sees nothing any more.
ExplorerClose ==
    /\ container
    /\ container' = FALSE
    /\ els' = [e \in ElIds |-> NoEl]
    /\ observer' = IF observer = "observing" THEN "detached" ELSE observer
    /\ records' = {}
    /\ last' = Op("explorerClose", <<>>)
    /\ UNCHANGED <<phase, layoutReady, settings, stored, savesPending,
                   needsFormatPaths, debounceTimer, timers, files, cssColor,
                   calls>>

\* The host renders a title element for path p in the container (folder
\* expanded, virtual scroll): a new node without a dot.
RenderElement(e, p) ==
    /\ container
    /\ ~els[e].shown
    /\ els' = [els EXCEPT ![e] = [shown |-> TRUE, path |-> p, dots |-> 0]]
    /\ records' = enqueue(observer, records, {TitleNode(e)})
    /\ last' = Op("render", p)
    /\ UNCHANGED <<phase, layoutReady, settings, stored, savesPending,
                   needsFormatPaths, debounceTimer, timers, files, container,
                   observer, cssColor, calls>>

\* The host removes a rendered title element.
RemoveElement(e) ==
    /\ els[e].shown
    /\ els' = [els EXCEPT ![e] = NoEl]
    /\ records' = records \ {TitleNode(e), DotNode(e)}
    /\ last' = Op("remove", <<>>)
    /\ UNCHANGED <<phase, layoutReady, settings, stored, savesPending,
                   needsFormatPaths, debounceTimer, timers, files, container,
                   observer, cssColor, calls>>

\* The file explorer drops the title element of a path that no file of the
\* vault has (the file was deleted, or renamed away).
HostDropsDeleted(e) ==
    /\ \A f \in FileIds : ~(files[f].exists /\ files[f].path = els[e].path)
    /\ RemoveElement(e)

\* The file explorer renders the title element of a file of the vault.
HostRendersFile(e, f) ==
    /\ files[f].exists
    /\ \A x \in ElIds : ~(els[x].shown /\ els[x].path = files[f].path)
    /\ RenderElement(e, files[f].path)

\* The MutationObserver callback with the undelivered records; the spans
\* it inserts are mutations of the observed subtree in their turn.
ObserverCallback ==
    /\ observer = "observing"
    /\ records # {}
    /\ els' = decorate(els, records, needsFormatPaths)
    /\ records' = {DotNode(e) : e \in {x \in ElIds : els'[x].dots > els[x].dots}}
    /\ last' = Op("observer", <<>>)
    /\ UNCHANGED <<phase, layoutReady, settings, stored, savesPending,
                   needsFormatPaths, debounceTimer, timers, files, container,
                   observer, cssColor, calls>>

(***************************************************************************)
(* Inputs.                                                                 *)
(***************************************************************************)

\* Paths of Markdown files
P_A_x  == <<"A", "/", "x", ".", "m", "d">>
P_AB_x == <<"A", "B", "/", "x", ".", "m", "d">>
P_B_y  == <<"B", "/", "y", ".", "m", "d">>
P_x    == <<"x", ".", "m", "d">>

\* Timestamps in the README's layout, YYYY-MM-DD HH:mm
T_14_1800 == <<"2", "0", "2", "6", "-", "0", "1", "-", "1", "4", " ",
               "1", "8", ":", "0", "0">>
T_15_0930 == <<"2", "0", "2", "6", "-", "0", "1", "-", "1", "5", " ",
               "0", "9", ":", "3", "0">>

\* The README's example (formatted before modified), and the same with the
\* two values exchanged.
FmStale == {<<S_modified, StringValue(T_15_0930)>>,
            <<S_formatted, StringValue(T_14_1800)>>}
FmFresh == {<<S_modified, StringValue(T_14_1800)>>,
            <<S_formatted, StringValue(T_15_0930)>>}
FmNoFormatted == {<<S_modified, StringValue(T_15_0930)>>}

C_red == <<"#", "f", "0", "0">>

\* 2026-01-15 09:30 local time as getTime() / 60000: day 20468 of the epoch
Min_15_0930 == 20468 * 1440 + 9 * 60 + 30

\* What the host and the user do: the file slots that change, the caches
\* and paths the host produces, the values typed into the settings tab,
\* the paths of the title elements the file explorer renders.
SysEnv ==
    [ids            |-> {"f1"},
     caches         |-> {WithFrontmatter(FmStale), WithFrontmatter(FmFresh)},
     paths          |-> {P_A_x, P_AB_x},
     colors         |-> {C_amber},
     folderTexts    |-> {<<"A">>},
     formattedTexts |-> {S_modified},
     modifiedTexts  |-> {S_modified},
     elIds          |-> {"e1"},
     elPaths        |-> {P_A_x}]

\* The same with the file explorer closed throughout: more of the vault
\* and of the settings tab.
VaultEnv ==
    [ids            |-> {"f1"},
     caches         |-> {NoFrontmatter, WithFrontmatter(FmStale),
                         WithFrontmatter(FmFresh)},
     paths          |-> {P_A_x, P_AB_x},
     colors         |-> {C_red},
     folderTexts    |-> {<<>>, <<"A">>, <<"B", "/">>},
     formattedTexts |-> {S_modified, <<" ">>},
     modifiedTexts  |-> {S_formatted, <<" ">>}]

\* Vaults at start-up: empty, or with B/y.md, which stays as it is.
SysVaults == {[f \in FileIds |-> NoFile]}
VaultVaults ==
    {[f \in FileIds |-> IF f = "f2" THEN MdFile(P_B_y, WithFrontmatter(FmStale))
                        ELSE NoFile]}
SysStored == {<<>>}

(***************************************************************************)
(* The plugin in a vault with the settings tab in use.                     *)
(***************************************************************************)

InitWith(vaults, datas) ==
    /\ phase = "constructed"
    /\ layoutReady = FALSE
    /\ settings = <<>>
    /\ stored \in datas
    /\ savesPending = 0
    /\ needsFormatPaths = {}
    /\ debounceTimer = NoTimer
    /\ timers = {}
    /\ files \in vaults
    /\ container = FALSE
    /\ els = [e \in ElIds |-> NoEl]
    /\ observer = "null"
    /\ records = {}
    /\ cssColor = <<>>
    /\ calls = 0
    /\ last = Op("constructor", <<>>)

\* The plugin's life cycle, the host's vault and workspace events, the
\* debounce timer and the settings tab.
PluginSteps(env) ==
    \/ Load
    \/ LayoutReady
    \/ \E f \in env.ids, c \in env.caches : MetadataChanged(f, c)
    \/ LayoutChange
    \/ \E f \in env.ids, p \in env.paths : CreateFile(f, p)
    \/ \E f \in env.ids : DeleteFile(f)
    \/ \E f \in env.ids, p \in env.paths : RenameFile(f, p)
    \/ FolderEvent
    \/ \E id \in 1..MaxTimers : TimerFire(id)
    \/ \E value \in env.colors : SetDotColor(value)
    \/ \E value \in env.folderTexts : SetIncludedFolders(value)
    \/ \E value \in env.formattedTexts : SetFormattedField(value)
    \/ \E value \in env.modifiedTexts : SetModifiedField(value)
    \/ SaveDone
    \/ Unload

\* The file explorer's DOM and the mutation observer.
DomSteps(env) ==
    \/ ExplorerOpen
    \/ ExplorerClose
    \/ \E e \in env.elIds, p \in env.elPaths : RenderElement(e, p)
    \/ \E e \in env.elIds : RemoveElement(e)
    \/ ObserverCallback

Init == InitWith(SysVaults, SysStored)

Next == PluginSteps(SysEnv) \/ DomSteps(SysEnv)

Spec == Init /\ [][Next]_vars

InitVault == InitWith(VaultVaults, SysStored)

NextVault == PluginSteps(VaultEnv)

SpecVault == InitVault /\ [][NextVault]_vars

(***************************************************************************)
(* What the claims speak of, stated without the plugin's own helpers.      *)
(***************************************************************************)

\* s begins with the characters of p
BeginsWith(s, p) == \A i \in 1..Len(p) : i <= Len(s) /\ s[i] = p[i]

\* The path lies under one of the folders: it begins with the folder's
\* name (a trailing "/" of the configured entry set aside) followed by "/".
UnderSomeFolder(path, folders) ==
    \E i \in 1..Len(folders) :
        LET given == folders[i]
            name  == IF given # <<>> /\ given[Len(given)] = "/"
                     THEN SubSeq(given, 1, Len(given) - 1) ELSE given
        IN  BeginsWith(path, name \o <<"/">>)

InScopeOf(path, cfg) ==
    cfg.includedFolders = <<>> \/ UnderSomeFolder(path, cfg.includedFolders)

\* The instant a drawn frontmatter value stands for: 0 when it gives no
\* timestamp (absent, not a string or date, blank, not a date text),
\* 1 for 2026-01-14 18:00, 2 for 2026-01-15 09:30.
StampOf(value) ==
    IF value.k = "date" THEN
        (IF ~value.nan /\ value.t = Min_15_0930 THEN 2 ELSE 0)
    ELSE IF value.k = "string" THEN
        (IF value.s \in {T_14_1800,
                         <<" ">> \o T_14_1800}
         THEN 1
         ELSE IF value.s \in {T_15_0930,
                              T_15_0930 \o <<" ", "\n">>,
                              [i \in 1..16 |-> IF i = 11 THEN "T"
                                               ELSE T_15_0930[i]]}
         THEN 2
         ELSE 0)
    ELSE 0

\* The value written under a field name in the file's frontmatter
Written(file, name) ==
    IF \E kv \in file.cache.frontmatter : kv[1] = name
    THEN (CHOOSE kv \in file.cache.frontmatter : kv[1] = name)[2]
    ELSE Undefined

FormattedOf(file, cfg) == StampOf(Written(file, cfg.formattedField))
ModifiedOf(file, cfg)  == StampOf(Written(file, cfg.modifiedField))

HasFrontmatter(file) == file.cache.cached /\ file.cache.hasFm

\* The needs-formatting predicate of the specification on two optional
\* timestamps.
NeedsFormatting(file, cfg) ==
    \/ FormattedOf(file, cfg) = 0
    \/ /\ FormattedOf(file, cfg) # 0
       /\ ModifiedOf(file, cfg) # 0
       /\ FormattedOf(file, cfg) < ModifiedOf(file, cfg)

Existing == {f \in FileIds : files[f].exists}

Tracked(f) == files[f].path \in needsFormatPaths

(***************************************************************************)
(* Claims about the tracked set, the debounce and the settings save.       *)
(***************************************************************************)

\* C1: in every reachable state the tracked-path set holds no path of a
\* file outside the configured folder scope and no path of a file whose
\* frontmatter has a formatted timestamp at or after its modified one.
\* (Violated between a settings onChange and the rescan after saveData.)
C1_TrackedInScopeAndStale ==
    \A f \in Existing :
        Tracked(f) =>
            /\ InScopeOf(files[f].path, settings)
            /\ ~(/\ HasFrontmatter(files[f])
                 /\ FormattedOf(files[f], settings) # 0
                 /\ ModifiedOf(files[f], settings) # 0
                 /\ FormattedOf(files[f], settings) >= ModifiedOf(files[f], settings))

\* The set scanAllFiles is to produce: the paths of the Markdown files in
\* scope under the current settings whose cached frontmatter satisfies the
\* predicate under the current field names.
ExpectedPaths ==
    {files[f].path : f \in {g \in Existing :
        /\ InScopeOf(files[g].path, settings)
        /\ HasFrontmatter(files[g])
        /\ NeedsFormatting(files[g], settings)}}

\* C7: immediately after scanAllFiles (layout ready, end of saveSettings)
\* the tracked set is exactly the set of paths of Markdown files in scope
\* whose frontmatter needs formatting under the current settings.
C7_RebuiltFully ==
    last.op \in {"layoutReady", "saveDone"} => needsFormatPaths = ExpectedPaths

\* C7 witness: a save has completed under a non-default folder scope and
\* field names, with a file that was tracked before and one that is now.
C7_Witness ==
    /\ last.op = "saveDone"
    /\ settings.includedFolders # <<>>
    /\ settings.formattedField = S_modified
    /\ files["f1"].exists
    /\ needsFormatPaths = {files["f1"].path}

\* C8: any burst of scheduleApplyDecorations calls leaves exactly one
\* refresh timer pending, the one of the last call; when it fires
\* applyDecorations has run and no timer is left, so the burst is served by
\* one refresh; at most one timer is pending at any time.
C8_DebounceCollapses ==
    /\ Cardinality(timers) <= 1
    /\ (calls > 0) <=> (timers # {})
    /\ timers # {} => timers = {debounceTimer}
    /\ last.op = "timer" => (timers = {} /\ debounceTimer = NoTimer)

\* C8 witness: a second call has arrived while the first call's timer was
\* pending, and one timer is pending.
C8_Witness ==
    /\ calls >= 2
    /\ Cardinality(timers) = 1
    /\ last.op \in {"changed", "layoutChange", "rename"}

\* The settings with the two field names exchanged
Swapped(cfg) ==
    [cfg EXCEPT !.formattedField = cfg.modifiedField,
                !.modifiedField = cfg.formattedField]

\* checkFile's verdict on a file taken alone, every file being in scope
Verdict(file, cfg) ==
    file.path \in checkFile({}, file, [cfg EXCEPT !.includedFolders = <<>>])

\* C9: for frontmatter with both timestamps present and different,
\* checkFile with the two field names exchanged gives the opposite verdict
\* (the README's example is true, and false with the names exchanged), and
\* after a settings save completes the tracked set follows the names now
\* configured.
C9_SwappedFieldNames ==
    /\ Verdict(MdFile(P_x, WithFrontmatter(FmStale)), DEFAULT_SETTINGS)
    /\ ~Verdict(MdFile(P_x, WithFrontmatter(FmStale)), Swapped(DEFAULT_SETTINGS))
    /\ phase # "constructed" =>
         \A f \in Existing :
            (/\ HasFrontmatter(files[f])
             /\ FormattedOf(files[f], settings) # 0
             /\ ModifiedOf(files[f], settings) # 0
             /\ FormattedOf(files[f], settings) # ModifiedOf(files[f], settings))
            => /\ Verdict(files[f], settings) # Verdict(files[f], Swapped(settings))
               /\ (last.op = "saveDone" /\ InScopeOf(files[f].path, settings))
                    => (Tracked(f) <=>
                          FormattedOf(files[f], settings) < ModifiedOf(files[f], settings))

\* C9 witness: a save has completed with the names exchanged, and the file
\* of the README's example, tracked under the default names, is not.
C9_Witness ==
    /\ last.op = "saveDone"
    /\ settings.formattedField = S_modified
    /\ settings.modifiedField = S_formatted
    /\ settings.includedFolders = <<>>
    /\ files["f2"].cache = WithFrontmatter(FmStale)
    /\ ~Tracked("f2")

(***************************************************************************)
(* checkFile on one file, over the values a frontmatter field can hold.    *)
(***************************************************************************)

T_soon == <<"s", "o", "o", "n">>

\* What a frontmatter field can hold: nothing (the key is not there), null,
\* a Date (valid or not), and strings: a timestamp plain, padded, with two
\* spaces between date and time; text that is no date; blank.
CheckValues ==
    {Undefined, NullValue, DateValue(Min_15_0930), InvalidDate,
     StringValue(T_14_1800),
     StringValue(<<" ">> \o T_14_1800),
     StringValue(T_15_0930 \o <<" ", "\n">>),
     StringValue(SubSeq(T_15_0930, 1, 11) \o <<" ">> \o SubSeq(T_15_0930, 12, 16)),
     StringValue(T_soon),
     StringValue(<<" ">>)}

\* The frontmatter with the two values under the default field names
FmOf(fv, mv) ==
    {<<S_formatted, fv>> : x \in IF fv = Undefined THEN {} ELSE {1}}
    \cup {<<S_modified, mv>> : x \in IF mv = Undefined THEN {} ELSE {1}}

CheckCaches ==
    {NoFrontmatter} \cup {WithFrontmatter(FmOf(fv, mv)) : fv, mv \in CheckValues}

CheckPaths == {P_A_x, P_AB_x}

CheckStored == {<<>>, [key \in {"includedFolders"} |-> << <<"A">> >>]}

\* The plugin has loaded its settings; the vault holds one file the host
\* has not indexed yet, and the file explorer shows its title element.
InitCheck ==
    /\ phase = "loaded"
    /\ layoutReady = FALSE
    /\ stored \in CheckStored
    /\ settings = loadSettings(stored)
    /\ savesPending = 0
    /\ needsFormatPaths = {}
    /\ debounceTimer = NoTimer
    /\ timers = {}
    /\ \E p \in CheckPaths :
         /\ files = [f \in FileIds |-> IF f = "f1" THEN MdFile(p, NoCache)
                                       ELSE NoFile]
         /\ els = [e \in ElIds |-> [shown |-> TRUE, path |-> p, dots |-> 0]]
    /\ container = TRUE
    /\ observer = "null"
    /\ records = {}
    /\ cssColor = settings.dotColor
    /\ calls = 0
    /\ last = Op("onload", <<>>)

NextCheck ==
    \/ LayoutReady
    \/ \E c \in CheckCaches : MetadataChanged("f1", c)
    \/ \E id \in 1..MaxTimers : TimerFire(id)

SpecCheck == InitCheck /\ [][NextCheck]_vars

\* checkFile has just run on the file (a 'changed' event, or the scan).
JustChecked == last.op \in {"changed", "layoutReady"}

\* applyDecorations has just run.
JustRefreshed == last.op \in {"timer", "layoutReady"}

TheFile == files["f1"]

MarkerShownFor(path) == \E e \in ElIds : els[e].shown /\ els[e].path = path /\ els[e].dots > 0

\* C2: for an in-scope file with frontmatter, after checkFile the path is
\* tracked exactly when formatted is absent or both timestamps are present
\* and formatted < modified; formatted >= modified is never tracked and
\* formatted < modified always is.
C2_CheckFilePredicate ==
    (JustChecked /\ InScopeOf(TheFile.path, settings) /\ HasFrontmatter(TheFile)) =>
        LET fo == FormattedOf(TheFile, settings)
            mo == ModifiedOf(TheFile, settings)
        IN  /\ Tracked("f1") <=> (fo = 0 \/ (fo # 0 /\ mo # 0 /\ fo < mo))
            /\ (fo # 0 /\ mo # 0 /\ fo >= mo) => ~Tracked("f1")
            /\ (fo # 0 /\ mo # 0 /\ fo < mo) => Tracked("f1")

\* C2 witness: checkFile has run on an in-scope file whose formatted
\* timestamp (a padded string) precedes the modified one (a Date).
C2_Witness ==
    /\ last.op = "changed"
    /\ settings.includedFolders # <<>>
    /\ InScopeOf(TheFile.path, settings)
    /\ Written(TheFile, S_formatted) = StringValue(<<" ">> \o T_14_1800)
    /\ Written(TheFile, S_modified) = DateValue(Min_15_0930)
    /\ Tracked("f1")

C4_AllFailuresUntracked ==
    (JustChecked
       /\ (\/ ~HasFrontmatter(TheFile)
           \/ FormattedOf(TheFile, settings) = 0
           \/ ModifiedOf(TheFile, settings) = 0
           \/ ~InScopeOf(TheFile.path, settings)))
    => (~Tracked("f1") /\ ~MarkerShownFor(TheFile.path))

\* The failure modes that do resolve to "does not need formatting"
QuietFailure(file, cfg) ==
    \/ ~HasFrontmatter(file)
    \/ ~InScopeOf(file.path, cfg)
    \/ (FormattedOf(file, cfg) # 0 /\ ModifiedOf(file, cfg) = 0)

\* C4 amended: missing metadata, a file out of scope, and a missing or
\* unparseable modified timestamp beside a good formatted one leave the
\* path untracked after checkFile, and applyDecorations then leaves no
\* marker on it; a missing or unparseable formatted timestamp (frontmatter
\* there, in scope) is tracked.
C4_QuietFailures ==
    /\ (JustChecked \/ JustRefreshed) =>
          (QuietFailure(TheFile, settings) => ~Tracked("f1"))
    /\ JustRefreshed =>
          (QuietFailure(TheFile, settings) => ~MarkerShownFor(TheFile.path))
    /\ (JustChecked /\ HasFrontmatter(TheFile) /\ InScopeOf(TheFile.path, settings)
          /\ FormattedOf(TheFile, settings) = 0) => Tracked("f1")

\* C4 witness: the refresh has run after checkFile found a good formatted
\* timestamp beside a modified value that is no date; no marker is shown.
C4_Witness ==
    /\ last.op = "timer"
    /\ InScopeOf(TheFile.path, settings)
    /\ Written(TheFile, S_formatted) = StringValue(T_14_1800)
    /\ Written(TheFile, S_modified) = StringValue(T_soon)
    /\ ~Tracked("f1")
    /\ ~MarkerShownFor(TheFile.path)

\* The file with every field value that gives no timestamp taken out of
\* its frontmatter
WithoutUnparseable(file) ==
    [file EXCEPT !.cache.frontmatter =
        {kv \in file.cache.frontmatter : StampOf(kv[2]) # 0}]

\* C11: a field value that is no timestamp (null, a number, an invalid
\* Date, an empty or blank string, text that is no date) counts as an
\* absent field: after checkFile the file is tracked exactly when checkFile
\* tracks the same file with those fields left out, and toMs returns null
\* for each such value.
C11_UnparseableAsAbsent ==
    /\ \A v \in CheckValues \cup {NumberValue, StringValue(<<>>)} :
          StampOf(v) = 0 => toMs(v) = Null
    /\ toMs(Undefined) = Null /\ toMs(NullValue) = Null
    /\ toMs(NumberValue) = Null /\ toMs(InvalidDate) = Null
    /\ toMs(StringValue(<<>>)) = Null /\ toMs(StringValue(<<" ">>)) = Null
    /\ toMs(StringValue(<<" ", "\t", "\n">>)) = Null
    /\ toMs(StringValue(T_soon)) = Null
    /\ JustChecked =>
          (Tracked("f1") <=>
             TheFile.path \in
                checkFile({}, WithoutUnparseable(TheFile), settings))

\* C11 witness: checkFile has run on an in-scope file whose formatted value
\* is a good timestamp and whose modified value is an invalid Date;
\* as with no modified field, the file is not tracked.
C11_Witness ==
    /\ last.op = "changed"
    /\ InScopeOf(TheFile.path, settings)
    /\ Written(TheFile, S_formatted) = StringValue(T_14_1800)
    /\ Written(TheFile, S_modified) = InvalidDate
    /\ WithoutUnparseable(TheFile).cache.frontmatter =
          {<<S_formatted, StringValue(T_14_1800)>>}
    /\ ~Tracked("f1")

(***************************************************************************)
(* The folder scope: one file moved between folders while the included     *)
(* folders are edited in the settings tab.                                 *)
(***************************************************************************)

ScopePaths == {P_A_x, P_AB_x, P_x}

\* Texts typed into the included-folders text area: "", blank lines, "A",
\* "A/", "AB", and " A \n\nB/ ".
Text_blank == <<" ", "\n", "\t", "\n">>
ScopeTexts ==
    {<<>>, Text_blank, <<"A">>, <<"A", "/">>, <<"A", "B">>,
     <<" ", "A", " ", "\n", "\n", "B", "/", " ">>}

ScopeVaults ==
    {[f \in FileIds |->
        IF f = "f1" THEN MdFile(p, WithFrontmatter(FmStale))
        ELSE MdFile(P_B_y, WithFrontmatter(FmStale))] : p \in ScopePaths}

\* The plugin has loaded the default settings in a vault of two files.
InitScope ==
    /\ phase = "loaded"
    /\ layoutReady = FALSE
    /\ stored = <<>>
    /\ settings = loadSettings(stored)
    /\ savesPending = 0
    /\ needsFormatPaths = {}
    /\ debounceTimer = NoTimer
    /\ timers = {}
    /\ files \in ScopeVaults
    /\ container = FALSE
    /\ els = [e \in ElIds |-> NoEl]
    /\ observer = "null"
    /\ records = {}
    /\ cssColor = settings.dotColor
    /\ calls = 0
    /\ last = Op("onload", <<>>)

NextScope ==
    \/ LayoutReady
    \/ \E c \in {WithFrontmatter(FmStale), WithFrontmatter(FmFresh)} :
          MetadataChanged("f1", c)
    \/ \E p \in ScopePaths : RenameFile("f1", p)
    \/ \E id \in 1..MaxTimers : TimerFire(id)
    \/ \E value \in ScopeTexts : SetIncludedFolders(value)
    \/ SaveDone

SpecScope == InitScope /\ [][NextScope]_vars

\* checkFile has just run on file f, or scanAllFiles on every file.  (The
\* rename handler runs checkFile when the old path was tracked, and only
\* removes the old path otherwise.)
JustCheckedFile(f) ==
    \/ last.op \in {"changed", "rename"} /\ last.arg = files[f].path
    \/ last.op \in {"layoutReady", "saveDone"}

\* C5: with a non-empty included-folders list, a file whose path does not
\* begin with any configured folder followed by "/" (a trailing "/" of the
\* entry making no difference, "A" not matching "AB/x.md") is not tracked
\* after checkFile or scanAllFiles, whatever its timestamps.
C5_OutOfScopeExcluded ==
    settings.includedFolders # <<>> =>
        \A f \in Existing :
            (JustCheckedFile(f)
               /\ ~UnderSomeFolder(files[f].path, settings.includedFolders))
            => ~Tracked(f)

\* C5 witness: the folders were set to "A" and saved; AB/x.md, whose
\* frontmatter needs formatting, and B/y.md are not tracked.
C5_Witness ==
    /\ last.op = "saveDone"
    /\ settings.includedFolders = << <<"A">> >>
    /\ files["f1"] = MdFile(P_AB_x, WithFrontmatter(FmStale))
    /\ needsFormatPaths = {}

\* Every character of the text is white space
Blank(text) == \A i \in 1..Len(text) : text[i] \in {" ", "\t", "\n", "\r"}

\* C6: with an empty included-folders list isInScope is true of every
\* path; a text that is empty or holds only blank lines is stored as the
\* empty list; after the save every file that needs formatting is tracked.
C6_EmptyMeansAll ==
    /\ settings.includedFolders = <<>> =>
          \A p \in ScopePaths \cup {P_B_y} : isInScope(p, settings)
    /\ (last.op = "setIncludedFolders" /\ Blank(last.arg)) =>
          settings.includedFolders = <<>>
    /\ (last.op = "saveDone" /\ settings.includedFolders = <<>>) =>
          \A f \in Existing :
             (HasFrontmatter(files[f]) /\ NeedsFormatting(files[f], settings))
             => Tracked(f)

\* C6 witness: blank lines were typed over a non-empty folder list (B/y.md
\* is still untracked from it) and the list is empty.
C6_Witness ==
    /\ last.op = "setIncludedFolders"
    /\ last.arg = Text_blank
    /\ settings.includedFolders = <<>>
    /\ layoutReady
    /\ ~Tracked("f2")

(***************************************************************************)
(* The file explorer: two title elements rendered and removed while the    *)
(* refresh, the settings save and the mutation observer run.               *)
(***************************************************************************)

DomEnv ==
    [elIds   |-> {"e1", "e2"},
     elPaths |-> {P_A_x, P_B_y}]

DomVaults ==
    {[f \in FileIds |->
        IF f = "f1" THEN MdFile(P_A_x, WithFrontmatter(FmStale))
        ELSE MdFile(P_B_y, WithFrontmatter(FmStale))]}

\* The plugin has loaded the default settings; the file explorer is closed.
InitDom ==
    /\ phase = "loaded"
    /\ layoutReady = FALSE
    /\ stored = <<>>
    /\ settings = loadSettings(stored)
    /\ savesPending = 0
    /\ needsFormatPaths = {}
    /\ debounceTimer = NoTimer
    /\ timers = {}
    /\ files \in DomVaults
    /\ container = FALSE
    /\ els = [e \in ElIds |-> NoEl]
    /\ observer = "null"
    /\ records = {}
    /\ cssColor = settings.dotColor
    /\ calls = 0
    /\ last = Op("onload", <<>>)

NextDom ==
    \/ LayoutReady
    \/ \E c \in {WithFrontmatter(FmStale), WithFrontmatter(FmFresh)} :
          MetadataChanged("f1", c)
    \/ LayoutChange
    \/ \E id \in 1..MaxTimers : TimerFire(id)
    \/ SetDotColor(C_red)
    \/ SaveDone
    \/ DomSteps(DomEnv)

SpecDom == InitDom /\ [][NextDom]_vars

\* applyDecorations has just run (timer, layout ready, end of saveSettings).
JustDecorated == last.op \in {"timer", "layoutReady", "saveDone"}

\* C12: immediately after applyDecorations every rendered title element
\* with a data-path carries exactly one marker dot if its path is in the
\* tracked set and none otherwise; a marker left from an earlier state of
\* the set is gone.
C12_DecorationsMatchSet ==
    JustDecorated =>
        \A e \in ElIds :
            els[e].shown =>
                /\ els[e].path \in needsFormatPaths => els[e].dots = 1
                /\ els[e].path \notin needsFormatPaths => els[e].dots = 0

\* C12 witness: the timer's refresh has run over two rendered elements;
\* the marker of A/x.md, no longer tracked, has been removed (the observer
\* holds the record of it), B/y.md has one.
C12_Witness ==
    /\ last.op = "timer"
    /\ els["e1"] = [shown |-> TRUE, path |-> P_A_x, dots |-> 0]
    /\ els["e2"] = [shown |-> TRUE, path |-> P_B_y, dots |-> 1]
    /\ DotNode("e1") \in records
    /\ needsFormatPaths = {P_B_y}

\* C18: a rendered title element never carries more than one marker dot,
\* however applyDecorations runs, observer callbacks (those for spans that
\* applyDecorations or the observer inserted included) and setupObserver
\* calls interleave; the spans an observer callback has inserted are in
\* elements whose path is tracked.
C18_AtMostOneDot ==
    /\ \A e \in ElIds : els[e].dots <= 1
    /\ last.op = "observer" =>
          \A e \in ElIds :
             DotNode(e) \in records =>
                els[e].shown /\ els[e].path \in needsFormatPaths

\* C18 witness: the observer callback has run on records of the one
\* rendered element, which had its marker already (its title record
\* overtaken by a refresh, or the record of the span a refresh inserted);
\* the callback has inserted nothing and the element has one marker.
C18_Witness ==
    /\ last.op = "observer"
    /\ els["e1"].shown /\ els["e1"].dots = 1
    /\ ~els["e2"].shown
    /\ records = {}

(***************************************************************************)
(* The vault's rename and delete events.                                   *)
(***************************************************************************)

\* C14: a rename event of a file leaves the old path out of the tracked
\* set; if the old path was tracked the file is re-checked, so the new path
\* is tracked exactly when it is in scope and the frontmatter needs
\* formatting (if it was not, the new path is not looked at); every other
\* path keeps its membership.
C14_RenameRechecks ==
    [][\A f \in FileIds :
          (last'.op = "rename" /\ files[f].exists
             /\ files'[f].path # files[f].path) =>
            LET oldPath == files[f].path
                newPath == files'[f].path
            IN  /\ oldPath \notin needsFormatPaths'
                /\ oldPath \in needsFormatPaths =>
                      (newPath \in needsFormatPaths' <=>
                          /\ InScopeOf(newPath, settings)
                          /\ HasFrontmatter(files'[f])
                          /\ NeedsFormatting(files'[f], settings))
                /\ oldPath \notin needsFormatPaths =>
                      (newPath \in needsFormatPaths' <=>
                          newPath \in needsFormatPaths)
                /\ needsFormatPaths' \ {oldPath, newPath} =
                      needsFormatPaths \ {oldPath, newPath}]_vars

\* C14 witness: under a non-empty folder list a file has been renamed into
\* another included folder and is tracked under its new path (so it was
\* tracked under the old one and has been re-checked); B/y.md is as it was.
C14_Witness ==
    /\ last.op = "rename"
    /\ settings.includedFolders # <<>>
    /\ files["f1"].path = last.arg
    /\ needsFormatPaths = {last.arg, P_B_y}

\* C15: a delete event of a file takes that file's path out of the tracked
\* set and nothing else; a delete (or rename) event of a folder changes
\* nothing; the set never holds a path that no file of the vault has.
C15_DeleteRemovesOnly ==
    /\ [](needsFormatPaths \subseteq {files[f].path : f \in Existing})
    /\ [][(last'.op = "delete" =>
              \E f \in FileIds :
                 /\ files[f].exists /\ ~files'[f].exists
                 /\ files[f].path \notin needsFormatPaths'
                 /\ needsFormatPaths' \ {files[f].path} =
                       needsFormatPaths \ {files[f].path})
           /\ (last'.op = "folderEvent" =>
                 (needsFormatPaths' = needsFormatPaths /\ files' = files))]_vars

\* C15 witness: a file has been deleted while a refresh was pending for
\* it; its path is not tracked, B/y.md still is.
C15_Witness ==
    /\ last.op = "delete"
    /\ ~files["f1"].exists
    /\ timers # {}
    /\ needsFormatPaths = {P_B_y}

\* C16: once the initial scan has run and no settings save is under way,
\* every Markdown file in scope whose cached frontmatter needs formatting
\* is tracked, whatever metadata-changed, rename and delete events have
\* come.  (Violated: a file that was not tracked, being out of scope, and
\* is renamed into an included folder is not re-checked.)
C16_TrackedSetComplete ==
    (phase = "loaded" /\ layoutReady /\ savesPending = 0) =>
        ExpectedPaths \subseteq needsFormatPaths

\* C17: once onunload has run no title element carries a marker and the
\* colour variable is not set on the body, whatever was pending at unload:
\* a refresh timer, observer records, a settings save awaiting saveData.
\* (Violated: the continuation of saveSettings runs after unload, sets the
\* colour variable and inserts markers.)
C17_NothingAfterUnload ==
    phase = "unloaded" =>
        /\ \A e \in ElIds : els[e].dots = 0
        /\ cssColor = <<>>
        /\ timers = {}
        /\ observer # "observing" /\ records = {}

(***************************************************************************)
(* loadSettings over the stored data.                                      *)
(***************************************************************************)

S_done   == <<"d", "o", "n", "e">>
S_edited == <<"e", "d", "i", "t", "e", "d">>

\* Complete stored settings; data.json holds any subset of the fields.
LoadFull ==
    {[dotColor |-> c, includedFolders |-> fs, formattedField |-> ff,
      modifiedField |-> mf] :
        c \in {C_red, C_amber}, fs \in {<<>>, << <<"A">> >>},
        ff \in {S_modified, S_done}, mf \in {S_formatted, S_edited}}

LoadStored ==
    {[key \in keys |-> full[key]] : keys \in SUBSET SettingsKeys, full \in LoadFull}

InitLoad == InitWith(SysVaults, LoadStored)

NextLoad == Load

SpecLoad == InitLoad /\ [][NextLoad]_vars

\* C10: after loadSettings every field present in the stored data has its
\* stored value and every missing field its default: dotColor '#f59e0b',
\* includedFolders empty, formattedField 'formatted', modifiedField
\* 'modified'.
C10_DefaultsForMissing ==
    phase = "loaded" =>
        /\ DOMAIN settings = {"dotColor", "includedFolders", "formattedField",
                              "modifiedField"}
        /\ \A key \in DOMAIN stored : settings[key] = stored[key]
        /\ "dotColor" \notin DOMAIN stored =>
              settings.dotColor = <<"#", "f", "5", "9", "e", "0", "b">>
        /\ "includedFolders" \notin DOMAIN stored =>
              settings.includedFolders = <<>>
        /\ "formattedField" \notin DOMAIN stored =>
              settings.formattedField = <<"f", "o", "r", "m", "a", "t", "t", "e", "d">>
        /\ "modifiedField" \notin DOMAIN stored =>
              settings.modifiedField = <<"m", "o", "d", "i", "f", "i", "e", "d">>

\* C10 witness: the stored data held two of the four fields; they are kept
\* and the other two are the defaults.
C10_Witness ==
    /\ phase = "loaded"
    /\ DOMAIN stored = {"includedFolders", "modifiedField"}
    /\ settings.modifiedField = S_edited
    /\ settings.includedFolders = << <<"A">> >>
    /\ settings.dotColor = C_amber
    /\ settings.formattedField = S_formatted

(***************************************************************************)
(* The settings tab: texts typed into the three text inputs.               *)
(***************************************************************************)

\* Texts typed into a field-name input: "", " ", tab-space-newline,
\* " done ", "done", "a b", tab "edited" newline.
EditTexts ==
    {<<>>, <<" ">>, <<"\t", " ", "\n">>,
     <<" ">> \o S_done \o <<" ">>, S_done, <<"a", " ", "b">>,
     <<"\t">> \o S_edited \o <<"\n">>}

\* The plugin has loaded the default settings (no stored data).
InitEdit ==
    /\ phase = "loaded"
    /\ layoutReady = FALSE
    /\ stored = <<>>
    /\ settings = loadSettings(stored)
    /\ savesPending = 0
    /\ needsFormatPaths = {}
    /\ debounceTimer = NoTimer
    /\ timers = {}
    /\ files \in SysVaults
    /\ container = FALSE
    /\ els = [e \in ElIds |-> NoEl]
    /\ observer = "null"
    /\ records = {}
    /\ cssColor = settings.dotColor
    /\ calls = 0
    /\ last = Op("onload", <<>>)

NextEdit ==
    \/ \E value \in ScopeTexts : SetIncludedFolders(value)
    \/ \E value \in EditTexts : SetFormattedField(value)
    \/ \E value \in EditTexts : SetModifiedField(value)
    \/ SaveDone

SpecEdit == InitEdit /\ [][NextEdit]_vars

\* A non-empty string with no white space at either end
Tidy(s) ==
    /\ s # <<>>
    /\ s[1] \notin {" ", "\t", "\n", "\r"}
    /\ s[Len(s)] \notin {" ", "\t", "\n", "\r"}

\* C19: after any edit in the settings tab formattedField and
\* modifiedField are non-empty with no white space at either end (a blank
\* input gives the default name, any other input its text without the
\* padding), and includedFolders holds no empty and no padded entry.
C19_EditsNormalised ==
    /\ Tidy(settings.formattedField)
    /\ Tidy(settings.modifiedField)
    /\ \A i \in 1..Len(settings.includedFolders) :
          Tidy(settings.includedFolders[i])
    /\ (last.op = "setFormattedField" /\ Blank(last.arg)) =>
          settings.formattedField = <<"f", "o", "r", "m", "a", "t", "t", "e", "d">>
    /\ (last.op = "setModifiedField" /\ Blank(last.arg)) =>
          settings.modifiedField = <<"m", "o", "d", "i", "f", "i", "e", "d">>
    /\ (last.op = "setFormattedField" /\ ~Blank(last.arg)) =>
          \E i, j \in 1..Len(last.arg) :
             settings.formattedField = SubSeq(last.arg, i, j)
    /\ (last.op = "setModifiedField" /\ ~Blank(last.arg)) =>
          \E i, j \in 1..Len(last.arg) :
             settings.modifiedField = SubSeq(last.arg, i, j)

\* C19 witness: white space has been typed over a formatted-field name
\* that was not the default (kept in the modified field from a padded
\* input), after a padded folder list with an empty line: the name is the
\* default again and the list has its two entries.
C19_Witness ==
    /\ last.op = "setFormattedField"
    /\ last.arg = <<"\t", " ", "\n">>
    /\ settings.formattedField = S_formatted
    /\ settings.modifiedField = S_done
    /\ settings.includedFolders = << <<"A">>, <<"B", "/">> >>

(***************************************************************************)
(* Events followed by the refresh: the file explorer shows the items of    *)
(* the vault's files; a pending timer fires, and the file explorer drops   *)
(* the item of a file that is gone.                                        *)
(***************************************************************************)

LivePaths == {P_A_x, P_x}

InitLive ==
    /\ phase = "loaded"
    /\ layoutReady = FALSE
    /\ stored = <<>>
    /\ settings = loadSettings(stored)
    /\ savesPending = 0
    /\ needsFormatPaths = {}
    /\ debounceTimer = NoTimer
    /\ timers = {}
    /\ files \in DomVaults
    /\ container = TRUE
    /\ els = [e \in ElIds |->
                [shown |-> TRUE,
                 path  |-> IF e = "e1" THEN P_A_x ELSE P_B_y,
                 dots  |-> 0]]
    /\ observer = "null"
    /\ records = {}
    /\ cssColor = settings.dotColor
    /\ calls = 0
    /\ last = Op("onload", <<>>)

NextLive ==
    \/ LayoutReady
    \/ \E c \in {WithFrontmatter(FmStale), WithFrontmatter(FmFresh)} :
          MetadataChanged("f1", c)
    \/ \E p \in LivePaths : RenameFile("f1", p)
    \/ DeleteFile("f1")
    \/ \E id \in 1..MaxTimers : TimerFire(id)
    \/ \E e \in ElIds : HostDropsDeleted(e)
    \/ \E e \in ElIds : HostRendersFile(e, "f1")
    \/ ObserverCallback

\* setTimeout's callback runs once its timer is left pending; the file
\* explorer does drop the item of a file that is gone.
SpecLive ==
    /\ InitLive
    /\ [][NextLive]_vars
    /\ WF_vars(\E id \in 1..MaxTimers : TimerFire(id))
    /\ \A e \in ElIds : WF_vars(HostDropsDeleted(e))

\* No rendered title element has a marker for a path that is not tracked,
\* and every rendered element whose path is tracked has its marker.
MarkersMatch ==
    \A e \in ElIds :
        els[e].shown => (els[e].dots > 0 <=> els[e].path \in needsFormatPaths)

\* C13: after a metadata-changed, rename or delete event the markers come
\* to match the tracked set: the refresh the handler scheduled runs (after
\* a delete, which schedules none, the title element goes with the file).
C13_RefreshFollows ==
    (last.op \in {"changed", "rename", "delete"}) ~> MarkersMatch

\* C13 witness: the file, tracked and marked, was edited so that it needs
\* no formatting; the timer's refresh has run and its marker is gone, that
\* of B/y.md is there.
C13_Witness ==
    /\ last.op = "timer"
    /\ layoutReady
    /\ files["f1"].cache = WithFrontmatter(FmFresh)
    /\ needsFormatPaths = {P_B_y}
    /\ \E e \in ElIds : els[e].shown /\ els[e].path = files["f1"].path
                          /\ els[e].dots = 0
    /\ DotNode("e1") \in records
    /\ MarkersMatch

====
